---- MODULE Spec2Model ----
\* Model of the book-log local store (src/src/db/indexedDB.ts): the book
\* collection, the tag-usage index, the schema upgrade and the promise /
\* request-callback structure of every exported operation.
EXTENDS Integers, Sequences, FiniteSets, TLC

\* ---------------------------------------------------------------------
\* Bounds
\* ---------------------------------------------------------------------
MaxCalls == 2

\* ---------------------------------------------------------------------
\* Program constants
\* ---------------------------------------------------------------------
DB_VERSION == 6
STORE_NAME == "books"
TAGS_STORE_NAME == "usedTags"

\* Strings that the code inspects character by character (tags) are
\* sequences of one-character strings, so that trim() is computed.
IngenVibe == <<"I", "n", "g", "e", "n", " ", "v", "i", "b", "e">>

RECURSIVE TrimStart(_)
TrimStart(s) ==
  IF s = <<>> THEN s
  ELSE IF Head(s) = " " THEN TrimStart(Tail(s)) ELSE s

RECURSIVE TrimEnd(_)
TrimEnd(s) ==
  IF s = <<>> THEN s
  ELSE IF s[Len(s)] = " " THEN TrimEnd(SubSeq(s, 1, Len(s) - 1)) ELSE s

\* String.prototype.trim
Trim(s) == TrimEnd(TrimStart(s))

\* JavaScript values that may be missing: a kind and a payload of fixed type.
Undefined == [kind |-> "undefined", val |-> <<>>]
JsNull == [kind |-> "null", val |-> <<>>]
Arr(l) == [kind |-> "array", val |-> l]
Str(s) == [kind |-> "string", val |-> s]
NoFlag == [kind |-> "undefined", val |-> FALSE]
Flag(b) == [kind |-> "boolean", val |-> b]
NoText == [kind |-> "undefined", val |-> ""]
NoTime == [kind |-> "undefined", val |-> 0]
Time(t) == [kind |-> "date", val |-> t]
Text(t) == [kind |-> "string", val |-> t]

\* x || []  for a tag-list value
OrEmpty(v) == IF v.kind = "array" THEN v.val ELSE <<>>

\* ---------------------------------------------------------------------
\* Input sets
\* ---------------------------------------------------------------------
IdPool == {"b1", "b2"}
TagR == <<"R">>
Tagr == <<"r">>
TagrSp == <<"r", " ">>
TagSp == <<" ">>
\* Tag lists handed to updateUsedTags directly.
TagLists ==
  { <<>>, <<TagR>>, <<TagR, TagrSp>>, <<TagR, TagR>>, <<TagSp, Tagr>> }

\* BookInput (src/src/types/book.ts:38); the form of later versions also
\* sends the completion flag.
BookInputs ==
  [title : {"Dune"},
   vibes : {Undefined, Arr(<<TagR>>)},
   didNotFinish : {NoFlag, Flag(FALSE)}]

\* Partial<BookInput>: the empty change set, two changes that leave the
\* tags alone, tags cleared with null, tags replaced, and an object that
\* also carries the two properties the type leaves out.
EmptyUpdate ==
  [title |-> NoText, vibes |-> Undefined, didNotFinish |-> NoFlag,
   id |-> NoText, createdAt |-> NoTime]
ForeignCreatedAt == 7
BookUpdates ==
  { EmptyUpdate,
    [EmptyUpdate EXCEPT !.title = Text("Emma")],
    [EmptyUpdate EXCEPT !.didNotFinish = Flag(TRUE)],
    [EmptyUpdate EXCEPT !.vibes = JsNull],
    [EmptyUpdate EXCEPT !.vibes = Arr(<<TagrSp>>)],
    [EmptyUpdate EXCEPT !.id = Text("b2"),
                        !.createdAt = Time(ForeignCreatedAt)] }

\* Records written by older versions of the application: no tag array but
\* the single-tag field, or a tag array but no completion flag.
LegacyBooks ==
  [id : {"b1"}, title : {"Dune"}, vibes : {Undefined},
   vibe : {Undefined, Str(TagR), Str(IngenVibe), Str(TagSp)},
   didNotFinish : {NoFlag}, createdAt : {0}, updatedAt : {0}]
  \cup
  [id : {"b1"}, title : {"Dune"},
   vibes : {Arr(<<TagR>>), Arr(<<TagrSp, TagSp>>)},
   vibe : {Undefined}, didNotFinish : {NoFlag},
   createdAt : {0}, updatedAt : {0}]

NoBook ==
  [id |-> "", title |-> "", vibes |-> Undefined, vibe |-> Undefined,
   didNotFinish |-> NoFlag, createdAt |-> 0, updatedAt |-> 0]
NoInput == [title |-> "", vibes |-> Undefined, didNotFinish |-> NoFlag]

\* An asynchronous handler of App.tsx and the await it stands at: the
\* mount effect is at initDB when the component has rendered.
NoHandler == [op |-> "none", pc |-> "done", id |-> "", bookInput |-> NoInput]
Mounting == [NoHandler EXCEPT !.op = "mount", !.pc = "initDB"]

\* ---------------------------------------------------------------------
\* State
\* ---------------------------------------------------------------------
\* Besides the program's fields a call records, for the properties below,
\* the two stores as they were when it started (booksBefore, tagsBefore)
\* the kinds of the tag requests that were sent an error event
\* (failedKinds) and the tag index as it was when the call got the store
\* handle (tagsAtBody), and whether it created a transaction while a
\* conflicting transaction of another call was open (overlapped).
VARIABLES
  dbInstance,   \* module variable dbInstance: 0 is null, n the connection
                \* that the n-th open request produced
  opens,        \* number of indexedDB.open requests issued so far
  schema,       \* the database on disk: version and object stores
  books,        \* object store 'books': id -> stored record
  usedTags,     \* object store 'usedTags': tag -> count
  now,          \* the clock read by new Date()
  calls,        \* the pending promise of each caller
  prev,         \* the last add / update / delete a caller saw settle
  started,      \* number of calls made so far
  dbReady,      \* App state dbReady
  appError,     \* App state error: TRUE when a message is set
  appBooks,     \* App state books: the identifiers of the listed records
  showForm,     \* App state showForm
  editingBook,  \* App state editingBook: its id, "" is null
  handlers      \* the App's asynchronous handlers that have not finished

appVars == <<dbReady, appError, appBooks, showForm, editingBook, handlers>>

vars ==
  <<dbInstance, opens, schema, books, usedTags, now, calls, prev, started,
    dbReady, appError, appBooks, showForm, editingBook, handlers>>

\* Callers that may have a promise pending at the same time; the handlers
\* of App.tsx await each operation before starting the next (Sequential).
Slots == {1, 2}
Sequential == {1}

Idle ==
  [op |-> "idle", pc |-> "idle", id |-> "", bookInput |-> NoInput,
   updates |-> EmptyUpdate, tags |-> <<>>, book |-> NoBook,
   existingBook |-> NoBook, normalizedTags |-> <<>>, queue |-> <<>>,
   tagPromises |-> <<>>, snap |-> <<>>, tagsResult |-> "none",
   failedKinds |-> {},
   value |-> <<>>, tagValue |-> {}, error |-> "",
   booksBefore |-> <<>>, tagsBefore |-> <<>>, tagsAtBody |-> <<>>,
   request |-> 0, wasBlocked |-> FALSE, db |-> 0,
   n |-> 0, waitsFor |-> {}, overlapped |-> FALSE]

NoPrev ==
  [op |-> "none", status |-> "none", id |-> "", value |-> <<>>,
   existed |-> FALSE, tagsResult |-> "none"]

Put(f, k, v) == (k :> v) @@ f
Remove(f, k) == [x \in DOMAIN f \ {k} |-> f[x]]
EmptyStore == <<>>

\* ---------------------------------------------------------------------
\* Pure parts of the operations
\* ---------------------------------------------------------------------
Range(f) == {f[x] : x \in DOMAIN f}

\* addBook: the record built from the payload (lines 130-137)
NewBook(bookInput, id, t) ==
  [id |-> id, title |-> bookInput.title,
   vibes |-> Arr(OrEmpty(bookInput.vibes)),
   vibe |-> Undefined, didNotFinish |-> bookInput.didNotFinish,
   createdAt |-> t, updatedAt |-> t]

\* getAllBooks: request.result.map(...) (lines 174-191)
NormalizeInGetAllNoSentinel(book) ==
  [book EXCEPT
     !.vibes = Arr(IF book.vibes.kind = "array" THEN book.vibes.val
                   ELSE IF book.vibe.kind = "string" /\ book.vibe.val # <<>>
                        THEN <<book.vibe.val>> ELSE <<>>),
     !.didNotFinish = IF book.didNotFinish.kind # "undefined"
                      THEN book.didNotFinish ELSE Flag(FALSE)]
NormalizeInGetAll(book) ==
  [book EXCEPT
     !.vibes = Arr(IF book.vibes.kind = "array" THEN book.vibes.val
                   ELSE IF book.vibe.kind = "string" /\ book.vibe.val # <<>>
                           /\ book.vibe.val # IngenVibe
                        THEN <<book.vibe.val>> ELSE <<>>),
     !.didNotFinish = IF book.didNotFinish.kind # "undefined"
                      THEN book.didNotFinish ELSE Flag(FALSE)]

\* getBookById: the record resolved for a stored book (lines 218-233)
NormalizeInGetById(book) ==
  [book EXCEPT
     !.vibes = Arr(IF book.vibes.kind = "array" THEN book.vibes.val
                   ELSE IF book.vibe.kind = "string" /\ book.vibe.val # <<>>
                           /\ book.vibe.val # IngenVibe
                        THEN <<book.vibe.val>> ELSE <<>>),
     !.didNotFinish = IF book.didNotFinish.kind # "undefined"
                      THEN book.didNotFinish ELSE Flag(FALSE)]

\* updateBook: the merged record (lines 266-273); id and createdAt are
\* set after the two spreads, so the stored ones win
UpdatedBookSpreadLast(existingBook, updates, t) ==
  [id |-> IF updates.id.kind = "undefined"
          THEN existingBook.id ELSE updates.id.val,
   title |-> IF updates.title.kind = "undefined"
             THEN existingBook.title ELSE updates.title.val,
   vibes |-> Arr(IF updates.vibes.kind # "undefined"
                 THEN OrEmpty(updates.vibes)
                 ELSE OrEmpty(existingBook.vibes)),
   vibe |-> existingBook.vibe,
   didNotFinish |-> IF updates.didNotFinish.kind = "undefined"
                    THEN existingBook.didNotFinish
                    ELSE updates.didNotFinish,
   createdAt |-> IF updates.createdAt.kind = "undefined"
                 THEN existingBook.createdAt ELSE updates.createdAt.val,
   updatedAt |-> t]
UpdatedBook(existingBook, updates, t) ==
  [id |-> existingBook.id,
   title |-> IF updates.title.kind = "undefined"
             THEN existingBook.title ELSE updates.title.val,
   vibes |-> Arr(IF updates.vibes.kind # "undefined"
                 THEN OrEmpty(updates.vibes)
                 ELSE OrEmpty(existingBook.vibes)),
   vibe |-> existingBook.vibe,
   didNotFinish |-> IF updates.didNotFinish.kind = "undefined"
                    THEN existingBook.didNotFinish
                    ELSE updates.didNotFinish,
   createdAt |-> existingBook.createdAt,
   updatedAt |-> t]

\* updateBook: the record it resolves with (lines 286-291)
UpdateResult(updatedBook) ==
  [updatedBook EXCEPT !.vibes = Arr(OrEmpty(updatedBook.vibes))]

\* updateUsedTags: tags.map(trim).filter(length > 0) (lines 377-379)
NormalizedTagsUntrimmed(tags) == SelectSeq(tags, LAMBDA t : Len(t) > 0)
RECURSIVE NormalizedTags(_)
NormalizedTags(tags) ==
  IF tags = <<>> THEN <<>>
  ELSE IF Len(Trim(Head(tags))) > 0
       THEN <<Trim(Head(tags))>> \o NormalizedTags(Tail(tags))
       ELSE NormalizedTags(Tail(tags))

\* updateUsedTags: (getRequest.result.count || 1) + 1 (line 390)
UpdatedCountDecrementing(count) == count - 1
UpdatedCount(count) == (IF count = 0 THEN 1 ELSE count) + 1

\* onupgradeneeded: the tags collected from the existing books (lines 76-88)
BookTags(book) ==
  IF book.vibes.kind = "array"
  THEN {Trim(book.vibes.val[i]) : i \in
          {j \in DOMAIN book.vibes.val : Len(Trim(book.vibes.val[j])) > 0}}
  ELSE IF book.vibe.kind = "string" /\ book.vibe.val # <<>>
          /\ book.vibe.val # IngenVibe
       THEN {Trim(book.vibe.val)}
       ELSE {}
AllTags(bks) == UNION {BookTags(b) : b \in Range(bks)}

\* ---------------------------------------------------------------------
\* Initial states: a browser profile with no database, or one left by an
\* older version of the application, before the module is first used.
\* ---------------------------------------------------------------------
Init ==
  /\ dbInstance = 0
  /\ opens = 0
  /\ \E v \in {0, 1, DB_VERSION - 1} :
       /\ schema = [version |-> v,
                    stores |-> IF v > 1 THEN {STORE_NAME} ELSE {},
                    vibeIndex |-> v > 1]
       /\ IF v > 1
          THEN \/ books = EmptyStore
               \/ \E b \in LegacyBooks : books = Put(EmptyStore, b.id, b)
          ELSE books = EmptyStore
  /\ usedTags = EmptyStore
  /\ now = 0
  /\ calls = [s \in Slots |-> Idle]
  /\ prev = NoPrev
  /\ started = 0
  /\ dbReady = FALSE
  /\ appError = FALSE
  /\ appBooks = {}
  /\ showForm = FALSE
  /\ editingBook = ""
  /\ handlers = [s \in Slots |-> IF s = 1 THEN Mounting ELSE NoHandler]

SetCall(s, c) == calls' = [calls EXCEPT ![s] = c]

\* Where an operation continues once await getDB() has the handle: the
\* body of updateUsedTags is also run by addBook and updateBook.
BodyOf(op) == IF op = "updateUsedTags" THEN "tagsBody" ELSE "body"

\* What every exported operation does before its first await: getDB()
\* (lines 106-111) and, with no handle yet, initDB()'s indexedDB.open.
Begin(s, c) ==
  /\ calls[s].pc = "idle"
  /\ started < MaxCalls
  /\ started' = started + 1
  /\ IF dbInstance # 0
     THEN /\ SetCall(s, [c EXCEPT !.pc = BodyOf(c.op),
                                  !.n = started + 1,
                                  !.db = dbInstance,
                                  !.booksBefore = books,
                                  !.tagsBefore = usedTags,
                                  !.tagsAtBody = usedTags])
          /\ opens' = opens
     ELSE /\ SetCall(s, [c EXCEPT !.pc = "open",
                                  !.n = started + 1,
                                  !.request = opens + 1,
                                  !.booksBefore = books,
                                  !.tagsBefore = usedTags])
          /\ opens' = opens + 1
  /\ UNCHANGED <<appVars, dbInstance, schema, books, usedTags, now, prev>>

Resolved(c, value) == [c EXCEPT !.pc = "resolved", !.value = value]
Rejected(c, error) == [c EXCEPT !.pc = "rejected", !.error = error]

\* initDB() called by the application (lines 14-21)
InitDB(s) ==
  /\ calls[s].pc = "idle"
  /\ started < MaxCalls
  /\ started' = started + 1
  /\ IF dbInstance # 0
     THEN /\ SetCall(s, [Resolved([Idle EXCEPT !.op = "initDB"], <<>>)
                           EXCEPT !.n = started + 1,
                                  !.db = dbInstance,
                                  !.booksBefore = books,
                                  !.tagsBefore = usedTags,
                                  !.tagsAtBody = usedTags])
          /\ opens' = opens
     ELSE /\ SetCall(s, [Idle EXCEPT !.op = "initDB", !.pc = "open",
                                     !.n = started + 1,
                                     !.request = opens + 1,
                                     !.booksBefore = books,
                                     !.tagsBefore = usedTags])
          /\ opens' = opens + 1
  /\ UNCHANGED <<appVars, dbInstance, schema, books, usedTags, now, prev>>

AddBook(s, bookInput) ==
  Begin(s, [Idle EXCEPT !.op = "addBook", !.bookInput = bookInput])

GetAllBooks(s) == Begin(s, [Idle EXCEPT !.op = "getAllBooks"])

GetBookById(s, id) ==
  Begin(s, [Idle EXCEPT !.op = "getBookById", !.id = id])

UpdateBook(s, id, updates) ==
  Begin(s, [Idle EXCEPT !.op = "updateBook", !.id = id,
                           !.updates = updates])

DeleteBook(s, id) == Begin(s, [Idle EXCEPT !.op = "deleteBook", !.id = id])

GetAllUsedTags(s) == Begin(s, [Idle EXCEPT !.op = "getAllUsedTags"])

UpdateUsedTags(s, tags) ==
  Begin(s, [Idle EXCEPT !.op = "updateUsedTags", !.tags = tags])

\* request.onupgradeneeded (lines 32-99): the stores after the upgrade
UpgradedSchema(sc) ==
  [version |-> DB_VERSION,
   stores |-> sc.stores \cup {STORE_NAME, TAGS_STORE_NAME},
   vibeIndex |-> FALSE]

\* request.onupgradeneeded: the usedTags store after the upgrade; it is
\* created and prepopulated only when it did not exist (lines 62-96)
UpgradedTags(sc, bks, tgs) ==
  IF TAGS_STORE_NAME \in sc.stores THEN tgs
  ELSE [t \in AllTags(bks) |-> 1]

\* request.onupgradeneeded: the books store after the upgrade; it is
\* created when missing and otherwise only loses its 'vibe' index
\* (lines 37-59)
UpgradedBooksRecreated(sc, bks) == EmptyStore
UpgradedBooks(sc, bks) ==
  IF STORE_NAME \in sc.stores THEN bks ELSE EmptyStore

\* The open requests of one database are served in the order they were
\* made (line 21).
FirstInQueue(s) ==
  \A o \in Slots :
    calls[o].pc \in {"open", "blocked"} => calls[o].request >= calls[s].request

\* request.onsuccess of indexedDB.open (lines 27-30), after the upgrade
\* transaction when the stored version is older than DB_VERSION
OpenSuccess(s) ==
  /\ calls[s].pc = "open" /\ FirstInQueue(s)
  /\ dbInstance' = calls[s].request
  /\ IF schema.version < DB_VERSION
     THEN /\ schema' = UpgradedSchema(schema)
          /\ books' = UpgradedBooks(schema, books)
          /\ usedTags' = UpgradedTags(schema, books, usedTags)
     ELSE UNCHANGED <<appVars, schema, books, usedTags>>
  /\ SetCall(s, [(IF calls[s].op = "initDB"
                  THEN Resolved(calls[s], <<>>)
                  ELSE [calls[s] EXCEPT !.pc = BodyOf(calls[s].op)])
                 EXCEPT !.db = calls[s].request,
                        !.tagsAtBody = usedTags'])
  /\ UNCHANGED <<appVars, opens, now, prev, started>>

\* request.onerror of indexedDB.open (lines 23-25)
OpenError(s) ==
  /\ calls[s].pc = "open" /\ FirstInQueue(s)
  /\ SetCall(s, Rejected(calls[s], "Failed to open database"))
  /\ UNCHANGED <<appVars, dbInstance, opens, schema, books, usedTags, now, prev,
                 started>>

\* The blocked event of the open request: the database on disk is older
\* than DB_VERSION and a connection of another tab keeps it open. The
\* request has no onblocked handler (lines 21-32), so nothing runs; the
\* event is sent once, and the request goes on when that connection closes.
OpenBlocked(s) ==
  /\ calls[s].pc = "open" /\ FirstInQueue(s)
  /\ ~calls[s].wasBlocked
  /\ 0 < schema.version /\ schema.version < DB_VERSION
  /\ SetCall(s, [calls[s] EXCEPT !.pc = "blocked", !.wasBlocked = TRUE])
  /\ UNCHANGED <<appVars, dbInstance, opens, schema, books, usedTags, now, prev,
                 started>>

OtherConnectionCloses(s) ==
  /\ calls[s].pc = "blocked"
  /\ SetCall(s, [calls[s] EXCEPT !.pc = "open"])
  /\ UNCHANGED <<appVars, dbInstance, opens, schema, books, usedTags, now, prev,
                 started>>

\* The transaction a call has open: its object store (lines 127, 168, 210,
\* 255, 315, 344, 374) and whether it is readonly.
TxnStore(c) ==
  IF c.pc = "tagsTxn" \/ (c.pc = "request" /\ c.op = "getAllUsedTags")
  THEN TAGS_STORE_NAME
  ELSE IF c.pc \in {"request", "put"} THEN STORE_NAME ELSE ""

ReadOnly(c) == c.op \in {"getAllBooks", "getBookById", "getAllUsedTags"}

Conflict(c, d) ==
  /\ TxnStore(c) # "" /\ TxnStore(c) = TxnStore(d)
  /\ ~(ReadOnly(c) /\ ReadOnly(d))

\* db.transaction(...): transactions whose scopes overlap, one of them
\* readwrite, run in the order they were created. A new transaction waits
\* for the conflicting ones that are open when it is created.
BlockersNone(s, c) == {}
Blockers(s, c) ==
  {calls[o].n : o \in {x \in Slots \ {s} : Conflict(c, calls[x])}}

Created(s, c) ==
  [c EXCEPT !.waitsFor = Blockers(s, c),
            !.overlapped = @ \/ Blockers(s, c) # {}]

\* The requests of a call's transaction are served only when the
\* transactions it waits for have finished.
TurnUnordered(s) == TRUE
Turn(s) ==
  \A o \in Slots \ {s} :
    Conflict(calls[s], calls[o]) => calls[o].n \notin calls[s].waitsFor

\* new Date(): the clock does not run backwards, and two reads may see the
\* same millisecond
Clock == {now, now + 1}

IdOrder == <<"b1", "b2">>
InStore(id) == id \in DOMAIN books

\* The first step of the nested updateUsedTags call made by addBook and
\* updateBook once the book is written (lines 143-145, 279-281): with an
\* empty tag list the call is skipped and the book is resolved.
AfterBookWriteSkippingTags(c, book, result) == Resolved(c, <<result>>)
AfterBookWrite(c, book, result) ==
  IF Len(book.vibes.val) > 0
  THEN [c EXCEPT !.pc = "tagsBody", !.tags = book.vibes.val,
                 !.value = <<result>>]
  ELSE Resolved(c, <<result>>)

\* addBook after await getDB(): the record is built and store.add issued
\* (lines 127-139)
AddBookBody(s) ==
  /\ calls[s].pc = "body" /\ calls[s].op = "addBook"
  /\ \E t \in Clock, id \in IdPool :
       /\ now' = t
       /\ SetCall(s, Created(s, [calls[s] EXCEPT
                        !.pc = "request",
                        !.book = NewBook(calls[s].bookInput, id, t)]))
  /\ UNCHANGED <<appVars, dbInstance, opens, schema, books, usedTags, prev, started>>

\* addBook request.onsuccess (lines 141-151), up to the nested call
AddOnSuccess(s) ==
  /\ calls[s].pc = "request" /\ Turn(s) /\ calls[s].op = "addBook"
  /\ ~InStore(calls[s].book.id)
  /\ books' = Put(books, calls[s].book.id, calls[s].book)
  /\ SetCall(s, AfterBookWrite(calls[s], calls[s].book, calls[s].book))
  /\ UNCHANGED <<appVars, dbInstance, opens, schema, usedTags, now, prev, started>>

\* addBook request.onerror (lines 153-155): the key exists, or storage fails
AddOnErrorAfterCounting(s) ==
  /\ calls[s].pc = "request" /\ Turn(s) /\ calls[s].op = "addBook"
  /\ LET keys == {Trim(calls[s].book.vibes.val[i]) :
                    i \in DOMAIN calls[s].book.vibes.val} \ {<<>>}
     IN usedTags' = [t \in DOMAIN usedTags \cup keys |->
                       (IF t \in DOMAIN usedTags THEN usedTags[t] ELSE 0)
                       + (IF t \in keys THEN 1 ELSE 0)]
  /\ SetCall(s, Rejected(calls[s], "Failed to add book"))
  /\ UNCHANGED <<appVars, dbInstance, opens, schema, books, now, prev, started>>
AddOnError(s) ==
  /\ calls[s].pc = "request" /\ Turn(s) /\ calls[s].op = "addBook"
  /\ SetCall(s, Rejected(calls[s], "Failed to add book"))
  /\ UNCHANGED <<appVars, dbInstance, opens, schema, books, usedTags, now, prev, started>>

\* Operations whose body only opens a transaction and issues one request:
\* getAllBooks (168-171), getBookById (210-213), updateBook (254-257),
\* deleteBook (314-317), getAllUsedTags (338-346)
IssueRequest(s) ==
  /\ calls[s].pc = "body"
  /\ calls[s].op \in {"getAllBooks", "getBookById", "updateBook",
                      "deleteBook", "getAllUsedTags"}
  /\ SetCall(s, IF calls[s].op = "getAllUsedTags"
                   /\ TAGS_STORE_NAME \notin schema.stores
                THEN Resolved(calls[s], <<>>)
                ELSE Created(s, [calls[s] EXCEPT !.pc = "request"]))
  /\ UNCHANGED <<appVars, dbInstance, opens, schema, books, usedTags, now, prev, started>>

\* getAllBooks request.onsuccess (lines 173-193)
GetAllOnSuccess(s) ==
  /\ calls[s].pc = "request" /\ Turn(s) /\ calls[s].op = "getAllBooks"
  /\ LET ids == SelectSeq(IdOrder, InStore)
     IN SetCall(s, Resolved(calls[s],
          [i \in 1..Len(ids) |-> NormalizeInGetAll(books[ids[i]])]))
  /\ UNCHANGED <<appVars, dbInstance, opens, schema, books, usedTags, now, prev, started>>

\* getBookById request.onsuccess (lines 215-237)
GetByIdOnSuccess(s) ==
  /\ calls[s].pc = "request" /\ Turn(s) /\ calls[s].op = "getBookById"
  /\ SetCall(s, IF InStore(calls[s].id)
                THEN Resolved(calls[s],
                              <<NormalizeInGetById(books[calls[s].id])>>)
                ELSE Resolved(calls[s], <<>>))
  /\ UNCHANGED <<appVars, dbInstance, opens, schema, books, usedTags, now, prev, started>>

\* The onerror handler of a read or delete request (lines 195-197, 239-241,
\* 299-301, 323-325, 353-355)
ErrorMessage(op) ==
  CASE op = "getAllBooks" -> "Failed to get books"
    [] op = "getBookById" -> "Failed to get book"
    [] op = "updateBook" -> "Failed to get book for update"
    [] op = "deleteBook" -> "Failed to delete book"
    [] op = "getAllUsedTags" -> "Failed to get used tags"

RequestOnError(s) ==
  /\ calls[s].pc = "request" /\ Turn(s)
  /\ calls[s].op \in {"getAllBooks", "getBookById", "updateBook",
                      "deleteBook", "getAllUsedTags"}
  /\ SetCall(s, Rejected(calls[s], ErrorMessage(calls[s].op)))
  /\ UNCHANGED <<appVars, dbInstance, opens, schema, books, usedTags, now, prev, started>>

\* updateBook getRequest.onsuccess (lines 259-275)
UpdateGetOnSuccessUpsert(s) ==
  /\ calls[s].pc = "request" /\ Turn(s) /\ calls[s].op = "updateBook"
  /\ \E t \in Clock :
       /\ now' = t
       /\ LET existing == IF InStore(calls[s].id) THEN books[calls[s].id]
                          ELSE [NoBook EXCEPT !.id = calls[s].id]
          IN SetCall(s, [calls[s] EXCEPT
               !.pc = "put",
               !.existingBook = existing,
               !.book = UpdatedBook(existing, calls[s].updates, t)])
  /\ UNCHANGED <<appVars, dbInstance, opens, schema, books, usedTags, prev, started>>
UpdateGetOnSuccess(s) ==
  /\ calls[s].pc = "request" /\ Turn(s) /\ calls[s].op = "updateBook"
  /\ IF ~InStore(calls[s].id)
     THEN /\ SetCall(s, Rejected(calls[s], "Book not found"))
          /\ now' = now
     ELSE \E t \in Clock :
            /\ now' = t
            /\ SetCall(s, [calls[s] EXCEPT
                 !.pc = "put",
                 !.existingBook = books[calls[s].id],
                 !.book = UpdatedBook(books[calls[s].id],
                                      calls[s].updates, t)])
  /\ UNCHANGED <<appVars, dbInstance, opens, schema, books, usedTags, prev, started>>

\* updateBook putRequest.onsuccess (lines 277-292), up to the nested call
UpdatePutOnSuccess(s) ==
  /\ calls[s].pc = "put" /\ Turn(s)
  /\ books' = Put(books, calls[s].book.id, calls[s].book)
  /\ SetCall(s, AfterBookWrite(calls[s], calls[s].book,
                               UpdateResult(calls[s].book)))
  /\ UNCHANGED <<appVars, dbInstance, opens, schema, usedTags, now, prev, started>>

\* updateBook putRequest.onerror (lines 294-296)
UpdatePutOnError(s) ==
  /\ calls[s].pc = "put" /\ Turn(s)
  /\ SetCall(s, Rejected(calls[s], "Failed to update book"))
  /\ UNCHANGED <<appVars, dbInstance, opens, schema, books, usedTags, now, prev, started>>

\* deleteBook request.onsuccess (lines 319-321): store.delete of a missing
\* key succeeds
DeleteOnSuccessStrict(s) ==
  /\ calls[s].pc = "request" /\ Turn(s) /\ calls[s].op = "deleteBook"
  /\ books' = Remove(books, calls[s].id)
  /\ SetCall(s, IF InStore(calls[s].id) THEN Resolved(calls[s], <<>>)
                ELSE Rejected(calls[s], "Book not found"))
  /\ UNCHANGED <<appVars, dbInstance, opens, schema, usedTags, now, prev, started>>
DeleteOnSuccess(s) ==
  /\ calls[s].pc = "request" /\ Turn(s) /\ calls[s].op = "deleteBook"
  /\ books' = Remove(books, calls[s].id)
  /\ SetCall(s, Resolved(calls[s], <<>>))
  /\ UNCHANGED <<appVars, dbInstance, opens, schema, usedTags, now, prev, started>>

\* getAllUsedTags request.onsuccess (lines 348-351)
GetAllUsedTagsOnSuccess(s) ==
  /\ calls[s].pc = "request" /\ Turn(s) /\ calls[s].op = "getAllUsedTags"
  /\ SetCall(s, [Resolved(calls[s], <<>>) EXCEPT
                   !.tagValue = DOMAIN usedTags])
  /\ UNCHANGED <<appVars, dbInstance, opens, schema, books, usedTags, now, prev, started>>

\* ---------------------------------------------------------------------
\* updateUsedTags (lines 365-417): one readwrite transaction on usedTags;
\* its requests run in the order they were placed.
\* ---------------------------------------------------------------------
Request(kind, i, tag, count) ==
  [kind |-> kind, i |-> i, tag |-> tag, count |-> count]

\* Promise.all(updatePromises).then(resolve).catch(reject) (lines 410-412)
AllSettled(promises) == \A i \in DOMAIN promises : promises[i] # "pending"
TagsResultAlwaysResolved(promises) == "resolved"
TagsResult(promises) ==
  IF \E i \in DOMAIN promises : promises[i] = "rejected"
  THEN "rejected" ELSE "resolved"

AfterHandler(c, queue, promises) ==
  IF AllSettled(promises)
  THEN [c EXCEPT !.pc = "tagsDone", !.queue = <<>>,
                 !.tagPromises = promises,
                 !.tagsResult = TagsResult(promises)]
  ELSE [c EXCEPT !.queue = queue, !.tagPromises = promises]

\* A request error whose event is not cancelled aborts the transaction:
\* every other pending request is sent an error event as well. rejectTag
\* for a get or a put (lines 394, 406), resolveTag for an add (399-402).
OnErrorOf(kind) == IF kind = "add" THEN "resolved" ELSE "rejected"
AfterAbort(c) ==
  [i \in DOMAIN c.tagPromises |->
     IF c.tagPromises[i] # "pending" THEN c.tagPromises[i]
     ELSE OnErrorOf((CHOOSE q \in Range(c.queue) : q.i = i).kind)]

\* The body after await getDB() (lines 369-381): the tags are normalized
\* and one get per tag is placed.
UpdateUsedTagsBody(s) ==
  /\ calls[s].pc = "tagsBody"
  /\ LET c == calls[s]
         nt == NormalizedTags(c.tags)
     IN SetCall(s,
          IF TAGS_STORE_NAME \notin schema.stores
          THEN [c EXCEPT !.pc = "tagsDone", !.tagsResult = "resolved"]
          ELSE IF nt = <<>>
          THEN [c EXCEPT !.pc = "tagsDone", !.tagsResult = "resolved",
                         !.snap = usedTags]
          ELSE Created(s, [c EXCEPT
                  !.pc = "tagsTxn",
                  !.normalizedTags = nt,
                  !.queue = [i \in 1..Len(nt) |-> Request("get", i, nt[i], 0)],
                  !.tagPromises = [i \in 1..Len(nt) |-> "pending"],
                  !.snap = usedTags]))
  /\ UNCHANGED <<appVars, dbInstance, opens, schema, books, usedTags, now, prev, started>>

HeadIs(s, kind) ==
  /\ calls[s].pc = "tagsTxn" /\ Turn(s)
  /\ calls[s].queue # <<>>
  /\ Head(calls[s].queue).kind = kind

\* getRequest.onsuccess (lines 385-404): put the incremented record, or
\* add a new one
TagGetOnSuccess(s) ==
  /\ HeadIs(s, "get")
  /\ LET c == calls[s]
         r == Head(c.queue)
         next == IF r.tag \in DOMAIN usedTags
                 THEN Request("put", r.i, r.tag, UpdatedCount(usedTags[r.tag]))
                 ELSE Request("add", r.i, r.tag, 1)
     IN SetCall(s, [c EXCEPT !.queue = Append(Tail(c.queue), next),
                              !.snap = IF r.i = 1 THEN usedTags ELSE @])
  /\ UNCHANGED <<appVars, dbInstance, opens, schema, books, usedTags, now, prev, started>>

\* putRequest.onsuccess (line 393)
TagPutOnSuccess(s) ==
  /\ HeadIs(s, "put")
  /\ LET c == calls[s]
         r == Head(c.queue)
     IN /\ usedTags' = Put(usedTags, r.tag, r.count)
        /\ SetCall(s, AfterHandler(c, Tail(c.queue),
                         [c.tagPromises EXCEPT ![r.i] = "resolved"]))
  /\ UNCHANGED <<appVars, dbInstance, opens, schema, books, now, prev, started>>

\* addRequest.onsuccess (line 398)
TagAddOnSuccess(s) ==
  /\ HeadIs(s, "add")
  /\ LET c == calls[s]
         r == Head(c.queue)
     IN /\ r.tag \notin DOMAIN usedTags
        /\ usedTags' = Put(usedTags, r.tag, r.count)
        /\ SetCall(s, AfterHandler(c, Tail(c.queue),
                         [c.tagPromises EXCEPT ![r.i] = "resolved"]))
  /\ UNCHANGED <<appVars, dbInstance, opens, schema, books, now, prev, started>>

\* getRequest.onerror (406), putRequest.onerror (394), addRequest.onerror
\* (399-402, also the constraint error of an add whose key exists): the
\* transaction aborts and its writes are undone.
TagRequestOnError(s) ==
  /\ calls[s].pc = "tagsTxn" /\ Turn(s)
  /\ calls[s].queue # <<>>
  /\ usedTags' = IF \E i \in DOMAIN calls[s].tagPromises :
                       calls[s].tagPromises[i] = "resolved"
                 THEN calls[s].snap ELSE usedTags
  /\ SetCall(s, [AfterHandler(calls[s], <<>>, AfterAbort(calls[s])) EXCEPT
                   !.failedKinds = {q.kind : q \in Range(calls[s].queue)}])
  /\ UNCHANGED <<appVars, dbInstance, opens, schema, books, now, prev, started>>

\* What the caller of updateUsedTags does when it settles: updateUsedTags
\* itself resolves or rejects (410-412); addBook and updateBook catch the
\* rejection and resolve with the book (144-150, 280-291).
AfterTagsPropagating(c) ==
  IF c.tagsResult = "rejected"
  THEN Rejected(c, "Failed to update tags")
  ELSE Resolved(c, c.value)
AfterTags(c) ==
  IF c.op = "updateUsedTags" /\ c.tagsResult = "rejected"
  THEN Rejected(c, "Failed to update tags")
  ELSE Resolved(c, c.value)

TagsSettled(s) ==
  /\ calls[s].pc = "tagsDone"
  /\ SetCall(s, AfterTags(calls[s]))
  /\ UNCHANGED <<appVars, dbInstance, opens, schema, books, usedTags, now, prev, started>>

\* The caller takes the settled promise's outcome.
Return(s) ==
  /\ calls[s].pc \in {"resolved", "rejected"}
  /\ prev' = IF calls[s].op \in {"addBook", "deleteBook", "updateBook"}
             THEN [op |-> calls[s].op, status |-> calls[s].pc,
                   id |-> IF calls[s].op = "addBook"
                          THEN calls[s].book.id ELSE calls[s].id,
                   value |-> calls[s].value,
                   existed |-> calls[s].id \in DOMAIN calls[s].booksBefore,
                   tagsResult |-> calls[s].tagsResult]
             ELSE NoPrev
  /\ SetCall(s, Idle)
  /\ UNCHANGED <<appVars, dbInstance, opens, schema, books, usedTags, now, started>>

Step(s) ==
    \/ InitDB(s)
    \/ \E bookInput \in BookInputs : AddBook(s, bookInput)
    \/ GetAllBooks(s)
    \/ \E id \in IdPool : GetBookById(s, id)
    \/ \E id \in IdPool, updates \in BookUpdates : UpdateBook(s, id, updates)
    \/ \E id \in IdPool : DeleteBook(s, id)
    \/ GetAllUsedTags(s)
    \/ \E tags \in TagLists : UpdateUsedTags(s, tags)
    \/ OpenSuccess(s)
    \/ OpenError(s)
    \/ OpenBlocked(s)
    \/ OtherConnectionCloses(s)
    \/ AddBookBody(s)
    \/ AddOnSuccess(s)
    \/ AddOnError(s)
    \/ IssueRequest(s)
    \/ GetAllOnSuccess(s)
    \/ GetByIdOnSuccess(s)
    \/ RequestOnError(s)
    \/ UpdateGetOnSuccess(s)
    \/ UpdatePutOnSuccess(s)
    \/ UpdatePutOnError(s)
    \/ DeleteOnSuccess(s)
    \/ GetAllUsedTagsOnSuccess(s)
    \/ UpdateUsedTagsBody(s)
    \/ TagGetOnSuccess(s)
    \/ TagPutOnSuccess(s)
    \/ TagAddOnSuccess(s)
    \/ TagRequestOnError(s)
    \/ TagsSettled(s)
    \/ Return(s)

\* The callers of App.tsx: one operation at a time.
Next == \E s \in Sequential : Step(s)

Spec == Init /\ [][Next]_vars

\* What the program and the storage do for a pending call: every request
\* is sent a success or an error event and every handler runs. New calls,
\* and the other tab closing its connection, are not the program's to make.
Handlers(s) ==
    \/ OpenSuccess(s)
    \/ OpenError(s)
    \/ AddBookBody(s)
    \/ AddOnSuccess(s)
    \/ AddOnError(s)
    \/ IssueRequest(s)
    \/ GetAllOnSuccess(s)
    \/ GetByIdOnSuccess(s)
    \/ RequestOnError(s)
    \/ UpdateGetOnSuccess(s)
    \/ UpdatePutOnSuccess(s)
    \/ UpdatePutOnError(s)
    \/ DeleteOnSuccess(s)
    \/ GetAllUsedTagsOnSuccess(s)
    \/ UpdateUsedTagsBody(s)
    \/ TagGetOnSuccess(s)
    \/ TagPutOnSuccess(s)
    \/ TagAddOnSuccess(s)
    \/ TagRequestOnError(s)
    \/ TagsSettled(s)

LiveSpec ==
  Init /\ [][Next]_vars /\ WF_vars(\E s \in Sequential : Handlers(s))

\* Callers that do not wait for one another (initDB of App.tsx:16 run by
\* two mounts, getAllUsedTags of BookForm.tsx:46): initialize and the
\* read operations, whose readonly transactions do not exclude each other.
ConcurrentStep(s) ==
    \/ InitDB(s)
    \/ GetAllBooks(s)
    \/ \E id \in IdPool : GetBookById(s, id)
    \/ GetAllUsedTags(s)
    \/ OpenSuccess(s)
    \/ OpenError(s)
    \/ OpenBlocked(s)
    \/ OtherConnectionCloses(s)
    \/ IssueRequest(s)
    \/ GetAllOnSuccess(s)
    \/ GetByIdOnSuccess(s)
    \/ GetAllUsedTagsOnSuccess(s)
    \/ RequestOnError(s)
    \/ Return(s)

ConcurrentNext == \E s \in Slots : ConcurrentStep(s)

ConcurrentSpec == Init /\ [][ConcurrentNext]_vars

\* Writers that do not wait for one another (handleUpdateBook and
\* handleDeleteBook of App.tsx:47-67 started before an earlier one has
\* settled): update and delete with everything they run.
OverlapId == "b1"
OverlapUpdates ==
  { [EmptyUpdate EXCEPT !.title = Text("Emma")],
    [EmptyUpdate EXCEPT !.vibes = Arr(<<TagrSp>>)] }

OverlapStep(s) ==
    \/ \E updates \in OverlapUpdates : UpdateBook(s, OverlapId, updates)
    \/ DeleteBook(s, OverlapId)
    \/ OpenSuccess(s)
    \/ OpenError(s)
    \/ OpenBlocked(s)
    \/ OtherConnectionCloses(s)
    \/ IssueRequest(s)
    \/ RequestOnError(s)
    \/ UpdateGetOnSuccess(s)
    \/ UpdatePutOnSuccess(s)
    \/ UpdatePutOnError(s)
    \/ DeleteOnSuccess(s)
    \/ UpdateUsedTagsBody(s)
    \/ TagGetOnSuccess(s)
    \/ TagPutOnSuccess(s)
    \/ TagAddOnSuccess(s)
    \/ TagRequestOnError(s)
    \/ TagsSettled(s)
    \/ Return(s)

OverlapNext == \E s \in Slots : OverlapStep(s)

OverlapSpec == Init /\ [][OverlapNext]_vars

\* ---------------------------------------------------------------------
\* App.tsx: the view state and its handlers. A handler that awaits a store
\* operation stands at that await until the operation settles; the
\* operation's effect on the stores is applied when it resolves.
\* ---------------------------------------------------------------------
storeVars ==
  <<dbInstance, opens, schema, books, usedTags, now, calls, prev>>

SetHandler(s, h) == handlers' = [handlers EXCEPT ![s] = h]

\* What is rendered: the error screen, the loading screen, or the page
\* (lines 84-99)
PageShown == ~appError /\ dbReady

\* The form hands over a whole BookInput (BookForm.tsx:77)
AsUpdates(bookInput) ==
  [EmptyUpdate EXCEPT !.title = Text(bookInput.title),
                      !.vibes = bookInput.vibes,
                      !.didNotFinish = bookInput.didNotFinish]

\* The tag index after a tag maintenance whose requests all succeed
RECURSIVE Counted(_, _)
Counted(index, tags) ==
  IF tags = <<>> THEN index
  ELSE Counted(Put(index, Head(tags),
                   IF Head(tags) \in DOMAIN index
                   THEN UpdatedCount(index[Head(tags)]) ELSE 1),
               Tail(tags))

\* The tag maintenance of a save is best effort: the index is counted up
\* or, when a request fails, left as it was.
TagsMaintained(book) ==
  \/ usedTags' = Counted(usedTags, NormalizedTags(OrEmpty(book.vibes)))
  \/ usedTags' = usedTags

\* useEffect: initDB().then(() => { setDbReady(true); loadBooks() })
\* (lines 15-19)
InitDBResolves(s) ==
  /\ handlers[s].pc = "initDB"
  /\ dbInstance' = opens + 1
  /\ opens' = opens + 1
  /\ schema' = UpgradedSchema(schema)
  /\ books' = UpgradedBooks(schema, books)
  /\ usedTags' = UpgradedTags(schema, books, usedTags)
  /\ dbReady' = TRUE
  /\ SetHandler(s, [handlers[s] EXCEPT !.pc = "load"])
  /\ UNCHANGED <<now, calls, prev, started, appError, appBooks, showForm,
                 editingBook>>

\* useEffect: .catch(err => setError(...)) (lines 21-23)
InitDBRejects(s) ==
  /\ handlers[s].pc = "initDB"
  /\ appError' = TRUE
  /\ SetHandler(s, NoHandler)
  /\ UNCHANGED <<storeVars, started, dbReady, appBooks, showForm,
                 editingBook>>

\* loadBooks settles (lines 26-35), and the handler that awaited it runs
\* to its end (lines 41, 53-54)
LoadBooks(s) ==
  /\ handlers[s].pc = "load"
  /\ \/ appBooks' = DOMAIN books /\ appError' = appError
     \/ appBooks' = appBooks /\ appError' = TRUE
  /\ showForm' = IF handlers[s].op \in {"add", "update"}
                 THEN FALSE ELSE showForm
  /\ editingBook' = IF handlers[s].op = "update" THEN "" ELSE editingBook
  /\ SetHandler(s, NoHandler)
  /\ UNCHANGED <<storeVars, started, dbReady>>

\* handleNewBook (lines 79-82), the '+ Add Book' button (lines 120-122)
HandleNewBook ==
  /\ PageShown /\ ~showForm
  /\ editingBook' = ""
  /\ showForm' = TRUE
  /\ UNCHANGED <<storeVars, started, dbReady, appError, appBooks, handlers>>

\* handleEditBook (lines 69-72), onEdit of a listed book (lines 124-134)
HandleEditBook(id) ==
  /\ PageShown /\ ~showForm
  /\ id \in appBooks
  /\ editingBook' = id
  /\ showForm' = TRUE
  /\ UNCHANGED <<storeVars, started, dbReady, appError, appBooks, handlers>>

\* handleCancelEdit (lines 74-77), onCancel of the form (line 115)
HandleCancelEdit ==
  /\ PageShown /\ showForm
  /\ editingBook' = ""
  /\ showForm' = FALSE
  /\ UNCHANGED <<storeVars, started, dbReady, appError, appBooks, handlers>>

\* onSubmit of the form (line 114): handleUpdateBook when a book is being
\* edited, else handleAddBook, up to the first await (lines 39, 51)
Submit(s, bookInput) ==
  /\ PageShown /\ showForm
  /\ handlers[s] = NoHandler
  /\ started < MaxCalls
  /\ started' = started + 1
  /\ SetHandler(s, [op |-> IF editingBook # "" THEN "update" ELSE "add",
                    pc |-> "store", id |-> editingBook,
                    bookInput |-> bookInput])
  /\ UNCHANGED <<storeVars, dbReady, appError, appBooks, showForm, editingBook>>

\* handleDeleteBook up to its first await (line 62), onDelete of a listed
\* book (lines 124-134)
HandleDeleteBook(s, id) ==
  /\ PageShown /\ ~showForm
  /\ id \in appBooks
  /\ handlers[s] = NoHandler
  /\ started < MaxCalls
  /\ started' = started + 1
  /\ SetHandler(s, [op |-> "delete", pc |-> "store", id |-> id,
                    bookInput |-> NoInput])
  /\ UNCHANGED <<storeVars, dbReady, appError, appBooks, showForm, editingBook>>

\* await addBook(bookInput) resolves; loadBooks is called (lines 39-40)
AddBookResolves(s) ==
  /\ handlers[s].pc = "store" /\ handlers[s].op = "add"
  /\ \E t \in Clock, id \in IdPool \ DOMAIN books :
       LET book == NewBook(handlers[s].bookInput, id, t)
       IN /\ now' = t
          /\ books' = Put(books, id, book)
          /\ TagsMaintained(book)
  /\ SetHandler(s, [handlers[s] EXCEPT !.pc = "load"])
  /\ UNCHANGED <<dbInstance, opens, schema, calls, prev, started, dbReady,
                 appError, appBooks, showForm, editingBook>>

\* await updateBook(editingBook.id, bookInput) resolves; loadBooks is
\* called (lines 51-52)
UpdateBookResolves(s) ==
  /\ handlers[s].pc = "store" /\ handlers[s].op = "update"
  /\ handlers[s].id \in DOMAIN books
  /\ \E t \in Clock :
       LET book == UpdatedBook(books[handlers[s].id],
                               AsUpdates(handlers[s].bookInput), t)
       IN /\ now' = t
          /\ books' = Put(books, book.id, book)
          /\ TagsMaintained(book)
  /\ SetHandler(s, [handlers[s] EXCEPT !.pc = "load"])
  /\ UNCHANGED <<dbInstance, opens, schema, calls, prev, started, dbReady,
                 appError, appBooks, showForm, editingBook>>

\* await deleteBook(id) resolves; loadBooks is called (lines 62-63)
DeleteBookResolves(s) ==
  /\ handlers[s].pc = "store" /\ handlers[s].op = "delete"
  /\ books' = Remove(books, handlers[s].id)
  /\ SetHandler(s, [handlers[s] EXCEPT !.pc = "load"])
  /\ UNCHANGED <<dbInstance, opens, schema, usedTags, now, calls, prev,
                 started, dbReady, appError, appBooks, showForm, editingBook>>

\* The awaited store operation is rejected: catch (err) { setError(...) }
\* (lines 42-44, 55-57, 64-66)
StoreCallRejects(s) ==
  /\ handlers[s].pc = "store"
  /\ appError' = TRUE
  /\ SetHandler(s, NoHandler)
  /\ UNCHANGED <<storeVars, started, dbReady, appBooks, showForm,
                 editingBook>>

AppStep(s) ==
    \/ InitDBResolves(s)
    \/ InitDBRejects(s)
    \/ LoadBooks(s)
    \/ \E bookInput \in BookInputs : Submit(s, bookInput)
    \/ \E id \in IdPool : HandleDeleteBook(s, id)
    \/ AddBookResolves(s)
    \/ UpdateBookResolves(s)
    \/ DeleteBookResolves(s)
    \/ StoreCallRejects(s)

AppNext ==
    \/ HandleNewBook
    \/ \E id \in IdPool : HandleEditBook(id)
    \/ HandleCancelEdit
    \/ \E s \in Slots : AppStep(s)

AppSpec == Init /\ [][AppNext]_vars

\* ---------------------------------------------------------------------
\* Properties
\* ---------------------------------------------------------------------
Settled(c) == c.pc \in {"resolved", "rejected"}

\* C1: create() followed by get-by-id() on the returned identifier yields a
\* record equal to the one create() resolved with, and in that record the
\* creation timestamp equals the update timestamp.
C1_CreateThenGetEqual ==
  \A s \in Slots :
    LET c == calls[s]
    IN (/\ c.op = "getBookById" /\ c.pc = "resolved"
        /\ prev.op = "addBook" /\ prev.status = "resolved"
        /\ c.id = prev.id)
       => /\ c.value = prev.value
          /\ prev.value[1].createdAt = prev.value[1].updatedAt

\* C2: update(id, {}) on an existing record changes only the update
\* timestamp of the stored record; every other field, an absent one
\* included, and every other record stay as they were.
C2_EmptyUpdateOnlyTimestamp ==
  \A s \in Slots :
    LET c == calls[s]
    IN (c.op = "updateBook" /\ c.pc = "resolved" /\ c.updates = EmptyUpdate)
       => books = Put(c.booksBefore, c.id,
                      [c.booksBefore[c.id] EXCEPT
                         !.updatedAt = books[c.id].updatedAt])

\* C3: after an update whose change set does not specify tags, both read
\* paths show the tag list they showed before it; after one that does,
\* they show the given list (the empty list for null).
C3_TagListFrame ==
  \A s \in Slots :
    LET c == calls[s]
    IN (c.op = "updateBook" /\ c.pc = "resolved")
       => LET old == c.booksBefore[c.id]
              new == books[c.id]
              want == IF c.updates.vibes.kind = "undefined"
                      THEN NormalizeInGetById(old).vibes.val
                      ELSE OrEmpty(c.updates.vibes)
          IN /\ NormalizeInGetById(new).vibes.val = want
             /\ NormalizeInGetAll(new).vibes.val = want

OpenFailure == "Failed to open database"

\* C4: update() on an identifier with no stored record never resolves: it
\* is rejected, with "Book not found" unless the store could not be opened
\* or the lookup request itself failed, and the book collection is exactly
\* as it was.
C4_UpdateMissingNotFound ==
  \A s \in Slots :
    LET c == calls[s]
    IN (c.op = "updateBook" /\ Settled(c) /\ c.id \notin DOMAIN c.booksBefore)
       => /\ c.pc = "rejected"
          /\ c.error \in {"Book not found", OpenFailure,
                          ErrorMessage("updateBook")}
          /\ books = c.booksBefore

C4_Witness ==
  \E s \in Slots :
    /\ calls[s].op = "updateBook" /\ calls[s].pc = "rejected"
    /\ calls[s].error = "Book not found"
    /\ calls[s].id \notin DOMAIN books
    /\ books # EmptyStore

\* C5: delete(id) is never rejected because the identifier is missing (only
\* a storage failure rejects it); once it has resolved the record is gone and
\* every other record is untouched, and a get-by-id(id) that follows it and
\* resolves yields null.
C5_DeleteThenGetNotFound ==
  \A s \in Slots :
    LET c == calls[s]
    IN /\ (c.op = "deleteBook" /\ Settled(c))
          => IF c.pc = "resolved"
             THEN books = Remove(c.booksBefore, c.id)
             ELSE /\ books = c.booksBefore
                  /\ c.error \in {OpenFailure, ErrorMessage("deleteBook")}
       /\ (/\ c.op = "getBookById" /\ Settled(c)
           /\ prev.op = "deleteBook" /\ prev.status = "resolved"
           /\ prev.id = c.id)
          => IF c.pc = "resolved" THEN c.value = <<>>
             ELSE c.error = ErrorMessage("getBookById")

C5_Witness ==
  \E s \in Slots :
    /\ calls[s].op = "getBookById" /\ calls[s].pc = "resolved"
    /\ calls[s].value = <<>>
    /\ prev.op = "deleteBook" /\ prev.status = "resolved"
    /\ prev.id = calls[s].id /\ prev.existed

\* C6: both read paths return a stored record with its tag list set to the
\* stored array, or else to the singleton of the legacy single-tag field, or
\* to the empty list when that field is absent or is 'Ingen vibe'; with a
\* missing completion flag set to false; and with every other field as stored.
C6_Normalized(b) ==
  [b EXCEPT
     !.vibes = IF b.vibes.kind = "array" THEN b.vibes
               ELSE IF b.vibe.kind = "undefined" \/ b.vibe.val = IngenVibe
                    THEN Arr(<<>>)
                    ELSE Arr(<<b.vibe.val>>),
     !.didNotFinish = IF @.kind = "undefined" THEN Flag(FALSE) ELSE @]

C6_ReadPathsNormalize ==
  \A s \in Slots :
    LET c == calls[s]
    IN /\ (c.op = "getBookById" /\ c.pc = "resolved")
          => c.value = IF c.id \in DOMAIN books
                       THEN <<C6_Normalized(books[c.id])>> ELSE <<>>
       /\ (c.op = "getAllBooks" /\ c.pc = "resolved")
          => /\ {c.value[i].id : i \in DOMAIN c.value} = DOMAIN books
             /\ Len(c.value) = Cardinality(DOMAIN books)
             /\ \A i \in DOMAIN c.value :
                  c.value[i] = C6_Normalized(books[c.value[i].id])

C6_Witness ==
  \E s \in Slots :
    /\ calls[s].op = "getAllBooks" /\ calls[s].pc = "resolved"
    /\ \E i \in DOMAIN calls[s].value :
         /\ books[calls[s].value[i].id].vibes = Undefined
         /\ books[calls[s].value[i].id].vibe = Str(TagR)
         /\ books[calls[s].value[i].id].didNotFinish = NoFlag
         /\ calls[s].value[i].vibes = Arr(<<TagR>>)
         /\ calls[s].value[i].didNotFinish = Flag(FALSE)

\* C7: a create or update is rejected only when the book was not written;
\* once the book write has succeeded the call resolves with the book record,
\* also when the record-tag-usage call it makes is rejected.
C7_TagFailureNotFatal ==
  \A s \in Slots :
    LET c == calls[s]
    IN (c.op \in {"addBook", "updateBook"} /\ Settled(c))
       => /\ c.tagsResult = "rejected" => c.pc = "resolved"
          /\ c.pc = "rejected" => books = c.booksBefore
          /\ c.pc = "resolved"
             => /\ c.value = <<c.book>>
                /\ c.book.id \in DOMAIN books
                /\ books[c.book.id] = c.book

C7_Witness ==
  \E s \in Slots :
    /\ calls[s].op = "addBook" /\ calls[s].pc = "resolved"
    /\ calls[s].tagsResult = "rejected"
    /\ calls[s].book.id \in DOMAIN books

CountIn(store, tag) == IF tag \in DOMAIN store THEN store[tag] ELSE 0
Occurrences(seq, x) == Cardinality({i \in DOMAIN seq : seq[i] = x})

\* C8: when no request of a record-tag-usage call fails, a tag that occurs k
\* times in the call's normalized tag list ends in the index with its count
\* raised by k.
C8_NoLostIncrement ==
  \A s \in Slots :
    LET c == calls[s]
    IN (c.op = "updateUsedTags" /\ c.pc = "resolved" /\ c.failedKinds = {})
       => \A t \in Range(c.normalizedTags) :
            /\ t \in DOMAIN usedTags
            /\ usedTags[t] = CountIn(c.snap, t)
                             + Occurrences(c.normalizedTags, t)

\* C9: the keys a record-tag-usage call touches are its tags with the
\* surrounding blanks removed, the empty ones dropped and the letter case
\* kept; when each key occurs once in the call and no request fails, every
\* such key's count is one more than before (one if it is new) and no other
\* entry changes, so two calls with ["R", "r "] on an empty index leave
\* R = 2 and r = 2.
C9_Keys(tags) == {Trim(tags[i]) : i \in DOMAIN tags} \ {<<>>}

C9_EachKeyOnce(tags) ==
  \A i, j \in DOMAIN tags :
    (Trim(tags[i]) = Trim(tags[j]) /\ Trim(tags[i]) # <<>>) => i = j

C9_TrimNoCaseFold ==
  \A s \in Slots :
    LET c == calls[s]
    IN (/\ c.op = "updateUsedTags" /\ c.pc = "resolved"
        /\ c.failedKinds = {} /\ C9_EachKeyOnce(c.tags))
       => /\ DOMAIN usedTags = DOMAIN c.snap \cup C9_Keys(c.tags)
          /\ \A t \in DOMAIN usedTags :
               usedTags[t] = CountIn(c.snap, t)
                             + (IF t \in C9_Keys(c.tags) THEN 1 ELSE 0)
          /\ TagR \in C9_Keys(c.tags) /\ Tagr \notin C9_Keys(c.tags)
             => CountIn(usedTags, Tagr) = CountIn(c.snap, Tagr)

C9_Witness ==
  \E s \in Slots :
    /\ calls[s].op = "updateUsedTags" /\ calls[s].pc = "resolved"
    /\ calls[s].tags = <<TagR, TagrSp>>
    /\ calls[s].failedKinds = {}
    /\ started = 2 /\ books = EmptyStore
    /\ calls[s].snap = (TagR :> 1) @@ (Tagr :> 1)
    /\ usedTags = (TagR :> 2) @@ (Tagr :> 2)

\* C10 as stated: a record-tag-usage call that got the store handle always
\* resolves, with no value.
C10_NeverRejects ==
  \A s \in Slots :
    LET c == calls[s]
    IN (c.op = "updateUsedTags" /\ Settled(c) /\ c.error # OpenFailure)
       => c.pc = "resolved" /\ c.value = <<>>

\* C10 as amended: record-tag-usage resolves, with no value, when every
\* request succeeds and when the only requests that fail are inserts; it is
\* rejected when a lookup or an increment request fails, or when the store
\* cannot be opened.
C10_RejectsOnLookupOrIncrementFailure ==
  \A s \in Slots :
    LET c == calls[s]
    IN (c.op = "updateUsedTags" /\ Settled(c))
       => IF c.pc = "resolved"
          THEN c.value = <<>> /\ c.failedKinds \subseteq {"add"}
          ELSE \/ c.error = OpenFailure /\ c.failedKinds = {}
               \/ c.failedKinds \cap {"get", "put"} # {}

C10_Witness ==
  \E s \in Slots :
    /\ calls[s].op = "updateUsedTags" /\ calls[s].pc = "rejected"
    /\ "get" \in calls[s].failedKinds
    /\ usedTags = calls[s].snap

\* C11: the tag-usage index only grows. Every stored count is a positive
\* integer, and when an operation (create, update, delete, tag query, tag
\* update, or any other) has settled, every tag that was in the index when
\* it started is still there with a count that is not smaller; deleting
\* the books that carry a tag changes nothing.
C11_IndexOnlyGrows ==
  /\ \A t \in DOMAIN usedTags : usedTags[t] \in Nat /\ usedTags[t] > 0
  /\ \A s \in Slots :
       LET c == calls[s]
       IN Settled(c)
          => /\ \A t \in DOMAIN c.tagsBefore :
                  t \in DOMAIN usedTags /\ usedTags[t] >= c.tagsBefore[t]
             /\ c.op \in {"deleteBook", "getAllUsedTags", "getAllBooks",
                           "getBookById"}
                => usedTags = c.tagsAtBody \/ c.error = OpenFailure

C11_Witness ==
  \E s \in Slots :
    /\ calls[s].op = "deleteBook" /\ calls[s].pc = "resolved"
    /\ calls[s].id \in DOMAIN calls[s].booksBefore
    /\ calls[s].booksBefore[calls[s].id].vibes = Arr(<<TagR>>)
    /\ books = EmptyStore
    /\ calls[s].tagsBefore = (TagR :> 1)
    /\ usedTags = (TagR :> 1)

\* C12 as stated: once a create or an update has resolved, every trimmed
\* non-empty tag of the saved record has a count one above the count it
\* had when the call got the store (one if it was not in the index).
C12_EverySaveCounts ==
  \A s \in Slots :
    LET c == calls[s]
    IN (c.op \in {"addBook", "updateBook"} /\ c.pc = "resolved")
       => \A t \in C9_Keys(c.book.vibes.val) :
            /\ t \in DOMAIN usedTags
            /\ usedTags[t] = CountIn(c.tagsAtBody, t) + 1

\* C12 as amended: the counts are raised as stated when no request of the
\* tag maintenance fails, and no other entry changes; when a request fails
\* the save still resolves and the index is as it was before the save.
C12_SaveCountsUnlessTagRequestFails ==
  \A s \in Slots :
    LET c == calls[s]
    IN (c.op \in {"addBook", "updateBook"} /\ c.pc = "resolved")
       => IF c.failedKinds = {}
          THEN /\ DOMAIN usedTags
                    = DOMAIN c.tagsAtBody \cup C9_Keys(c.book.vibes.val)
               /\ \A t \in DOMAIN usedTags :
                    usedTags[t] = CountIn(c.tagsAtBody, t)
                       + (IF t \in C9_Keys(c.book.vibes.val) THEN 1 ELSE 0)
          ELSE usedTags = c.tagsAtBody

C12_Witness ==
  \E s \in Slots :
    /\ calls[s].op = "updateBook" /\ calls[s].pc = "resolved"
    /\ calls[s].updates = EmptyUpdate
    /\ calls[s].book.vibes = Arr(<<TagR>>)
    /\ calls[s].failedKinds = {}
    /\ calls[s].tagsAtBody = (TagR :> 1)
    /\ usedTags = (TagR :> 2)

\* C13: once an open has succeeded the handle it stored stays the stored
\* handle, which every later call takes, and no further open request is
\* issued.
C13_OpenIdempotent ==
  [][dbInstance # 0 => (dbInstance' = dbInstance /\ opens' = opens)]_vars

\* C14: a step that changes the schema is an upgrade from an older
\* version to DB_VERSION that leaves every book record as it was, keeps
\* every collection that existed, and ends with both the book collection
\* and the tag-usage collection; a stored handle implies both exist.
C14_UpgradeKeepsData ==
  /\ [](dbInstance # 0
          => /\ {STORE_NAME, TAGS_STORE_NAME} \subseteq schema.stores
             /\ schema.version = DB_VERSION)
  /\ [][schema' # schema
          => /\ books' = books
             /\ schema.version < DB_VERSION
             /\ schema'.version = DB_VERSION
             /\ schema.stores \subseteq schema'.stores
             /\ {STORE_NAME, TAGS_STORE_NAME} \subseteq schema'.stores]_vars

C14_Witness ==
  \E s \in Slots :
    /\ calls[s].op = "initDB" /\ calls[s].pc = "resolved"
    /\ calls[s].request # 0
    /\ schema.version = DB_VERSION
    /\ TAGS_STORE_NAME \in schema.stores
    /\ books # EmptyStore
    /\ books = calls[s].booksBefore
    /\ \E k \in DOMAIN books : books[k].vibe = Str(TagR)

\* C15: the tags the backfill is to find on a book: the trimmed non-empty
\* elements of its tag array, or else its trimmed non-empty legacy tag
\* unless that is 'Ingen vibe'.
C15_TagsOn(book) ==
  IF book.vibes.kind = "array"
  THEN {Trim(book.vibes.val[i]) : i \in DOMAIN book.vibes.val} \ {<<>>}
  ELSE IF book.vibe.kind = "string" /\ book.vibe.val # IngenVibe
       THEN {Trim(book.vibe.val)} \ {<<>>}
       ELSE {}

\* C15: the upgrade step that introduces the tag-usage collection fills it
\* with exactly the distinct trimmed tags of the existing books, each with
\* count one; an upgrade step that finds the collection leaves it alone.
C15_BackfillExactlyBookTags ==
  [][schema' # schema
       => IF TAGS_STORE_NAME \in schema.stores
          THEN usedTags' = usedTags
          ELSE usedTags'
                 = [t \in UNION {C15_TagsOn(b) : b \in Range(books)} |-> 1]
    ]_vars

\* C16: a stored record's identifier is its key; an update that resolved
\* left the identifier and the creation timestamp of its record, the set
\* of stored identifiers and every other record as they were, whatever
\* the change set carried; a create whose identifier is already stored is
\* rejected with the write error and changes nothing.
C16_IdentityPreserved ==
  /\ \A k \in DOMAIN books : books[k].id = k
  /\ \A s \in Slots :
       LET c == calls[s]
       IN /\ (c.op = "updateBook" /\ c.pc = "resolved")
             => /\ DOMAIN books = DOMAIN c.booksBefore
                /\ books[c.id].createdAt = c.booksBefore[c.id].createdAt
                /\ c.value[1].id = c.id
                /\ c.value[1].createdAt = c.booksBefore[c.id].createdAt
                /\ \A k \in DOMAIN books \ {c.id} :
                     books[k] = c.booksBefore[k]
          /\ (/\ c.op = "addBook" /\ Settled(c)
              /\ c.book.id \in DOMAIN c.booksBefore)
             => /\ c.pc = "rejected"
                /\ c.error = "Failed to add book"
                /\ books = c.booksBefore

C16_Witness ==
  \E s \in Slots :
    /\ calls[s].op = "updateBook" /\ calls[s].pc = "resolved"
    /\ calls[s].updates.id = Text("b2")
    /\ calls[s].updates.createdAt = Time(ForeignCreatedAt)
    /\ calls[s].id = "b1"
    /\ DOMAIN books = {"b1"}
    /\ books["b1"].createdAt = calls[s].booksBefore["b1"].createdAt

\* C17: every call that has been made eventually settles, resolved or
\* rejected, whatever events the storage sends.
C17_EveryCallSettles ==
  \A s \in Slots : (calls[s].pc # "idle") ~> Settled(calls[s])

\* C18: a get-by-id that follows a resolved update of the same identifier
\* resolves with the record the update resolved with.
C18_UpdateResultEqualsGet ==
  \A s \in Slots :
    LET c == calls[s]
    IN (/\ c.op = "getBookById" /\ c.pc = "resolved"
        /\ prev.op = "updateBook" /\ prev.status = "resolved"
        /\ prev.id = c.id)
       => c.value = prev.value

\* C19: in a create or an update the tag index is as it was when the call
\* got the store until the book write has succeeded: the record-tag-usage
\* step runs only with the written record in the store, and a call that is
\* rejected never ran it and leaves the index and the books unchanged.
C19_TagsOnlyAfterBookWrite ==
  \A s \in Slots :
    LET c == calls[s]
    IN c.op \in {"addBook", "updateBook"}
       => /\ c.pc \in {"body", "request", "put"}
             => usedTags = c.tagsAtBody /\ c.tagsResult = "none"
          /\ (c.pc \in {"tagsBody", "tagsTxn", "tagsDone"}
                \/ c.tagsResult # "none")
             => /\ c.book.id \in DOMAIN books
                /\ books[c.book.id] = c.book
          /\ c.pc = "rejected"
             => /\ c.tagsResult = "none"
                /\ books = c.booksBefore
                /\ usedTags = IF c.error = OpenFailure
                              THEN c.tagsBefore ELSE c.tagsAtBody

C19_Witness ==
  \E s \in Slots :
    /\ calls[s].op = "addBook" /\ calls[s].pc = "rejected"
    /\ calls[s].error = "Failed to add book"
    /\ calls[s].book.vibes = Arr(<<TagR>>)
    /\ calls[s].tagsAtBody = (TagR :> 1)
    /\ usedTags = (TagR :> 1)

\* C20: at no time are two open requests outstanding, and all calls that
\* hold a store handle hold the same one.
C20_SingleOpen ==
  /\ Cardinality({s \in Slots : calls[s].pc \in {"open", "blocked"}}) <= 1
  /\ \A s, o \in Slots :
       (calls[s].db # 0 /\ calls[o].db # 0) => calls[s].db = calls[o].db

\* C22: every key of the tag index is a non-empty tag without leading or
\* trailing whitespace, whether record-tag-usage or the upgrade backfill
\* wrote it.
C22_KeysTrimmedNonEmpty ==
  \A t \in DOMAIN usedTags : t # <<>> /\ Trim(t) = t

\* C24: a create or an update resolves only after its record-tag-usage
\* step has settled, and when that step resolved, a list-known-tags call made
\* after the save lists every trimmed non-empty tag of the saved book.
C24_ResolvedSaveTagsListed ==
  /\ \A s \in Slots :
       LET c == calls[s]
       IN (c.op \in {"addBook", "updateBook"} /\ c.pc = "resolved"
             /\ c.value[1].vibes.val # <<>>)
          => c.tagsResult \in {"resolved", "rejected"}
  /\ \A s \in Slots :
       LET c == calls[s]
       IN (/\ c.op = "getAllUsedTags" /\ c.pc = "resolved"
           /\ prev.op \in {"addBook", "updateBook"}
           /\ prev.status = "resolved" /\ prev.tagsResult = "resolved")
          => C9_Keys(prev.value[1].vibes.val) \subseteq c.tagValue

\* C21: when two update calls on the same identifier whose change sets
\* name different fields have both resolved, the stored record carries the
\* changes of both, however their steps were interleaved.
C21_Applied(updates, b) ==
  /\ updates.title.kind # "undefined" => b.title = updates.title.val
  /\ updates.vibes.kind # "undefined"
       => b.vibes = Arr(OrEmpty(updates.vibes))
  /\ updates.didNotFinish.kind # "undefined"
       => b.didNotFinish = updates.didNotFinish

C21_Disjoint(u, v) ==
  /\ u.title.kind = "undefined" \/ v.title.kind = "undefined"
  /\ u.vibes.kind = "undefined" \/ v.vibes.kind = "undefined"
  /\ u.didNotFinish.kind = "undefined" \/ v.didNotFinish.kind = "undefined"

C21_BothChangesStored ==
  \A s, o \in Slots :
    LET c == calls[s]
        d == calls[o]
    IN (/\ s # o
        /\ c.op = "updateBook" /\ c.pc = "resolved"
        /\ d.op = "updateBook" /\ d.pc = "resolved"
        /\ c.id = d.id /\ C21_Disjoint(c.updates, d.updates))
       => /\ c.id \in DOMAIN books
          /\ C21_Applied(c.updates, books[c.id])
          /\ C21_Applied(d.updates, books[c.id])

C21_Witness ==
  \E s, o \in Slots :
    /\ s # o
    /\ calls[s].op = "updateBook" /\ calls[s].pc = "resolved"
    /\ calls[o].op = "updateBook" /\ calls[o].pc = "resolved"
    /\ calls[s].updates.title = Text("Emma")
    /\ calls[o].updates.vibes = Arr(<<TagrSp>>)
    /\ calls[s].n < calls[o].n /\ calls[o].overlapped
    /\ books[OverlapId].title = "Emma"
    /\ books[OverlapId].vibes = Arr(<<TagrSp>>)

\* C23: when an update and a delete of the same stored record have both
\* settled, the record is absent if the delete resolved, and a rejected
\* delete left the store to the update alone; no step puts back a record
\* that is not in the store.
C23_DeleteWins ==
  \A s, o \in Slots :
    LET c == calls[s]
        d == calls[o]
    IN (/\ c.op = "updateBook" /\ Settled(c)
        /\ d.op = "deleteBook" /\ Settled(d)
        /\ c.id = d.id /\ c.id \in DOMAIN d.booksBefore)
       => IF d.pc = "resolved"
          THEN c.id \notin DOMAIN books
          ELSE d.error \in {OpenFailure, ErrorMessage("deleteBook")}

C23_NeverRecreated ==
  [][DOMAIN books' \subseteq DOMAIN books]_vars

C23_UpdateNeverRecreates == []C23_DeleteWins /\ C23_NeverRecreated

C23_Witness ==
  \E s, o \in Slots :
    /\ calls[s].op = "updateBook" /\ calls[s].pc = "resolved"
    /\ calls[o].op = "deleteBook" /\ calls[o].pc = "resolved"
    /\ calls[s].id = calls[o].id
    /\ calls[s].id \in DOMAIN calls[o].booksBefore
    /\ calls[s].n < calls[o].n /\ calls[o].overlapped
    /\ calls[s].id \notin DOMAIN books

\* C25: whenever a book is selected for editing the form is shown.
C25_EditingImpliesForm == editingBook # "" => showForm

====
